---- MODULE Spec2Model ----
(***************************************************************************)
(* Parent-side controller of a cross-window component                      *)
(* (src/src/component/parent/index.js, class ParentComponent).             *)
(*                                                                         *)
(* State: the module-level list activeComponents, and for every Instance   *)
(* its fields (props, window, context, onInit), its resource registry      *)
(* (cleanupTasks), the resources the registry releases (listeners, close   *)
(* and unload observers, overlay, surfaces), armed timers and the          *)
(* cross-window requests in flight.  Every handler is one action; the      *)
(* body of a handler is a function on a "world" record                     *)
(*     [ac |-> activeComponents, me |-> the Instance, ev |-> events,       *)
(*      thrown |-> whether the call threw]                                 *)
(* so that the operators below compose the way the methods call each       *)
(* other.                                                                  *)
(***************************************************************************)
EXTENDS Integers, Sequences, FiniteSets, TLC

None == "none"

(***************************************************************************)
(* Bounds of the model.                                                    *)
(***************************************************************************)
MaxTimers == 1
MaxQueued == 2
MaxInFlight == 1
MaxCloseInFlight == 1
MaxRegistry == 2

Instances == {"p", "q"}
Focus == {"p"}

(***************************************************************************)
(* JavaScript values, as far as the props pipeline looks at them.          *)
(***************************************************************************)
Undefined == [t |-> "undefined", n |-> 0, s |-> ""]
Null == [t |-> "null", n |-> 0, s |-> ""]
NaN == [t |-> "number", n |-> 0, s |-> "NaN"]
Num(n) == [t |-> "number", n |-> n, s |-> ""]
Str(s) == [t |-> "string", n |-> 0, s |-> s]
Bool(b) == [t |-> "boolean", n |-> IF b THEN 1 ELSE 0, s |-> ""]
Fn(name) == [t |-> "function", n |-> 0, s |-> name]
Obj(name) == [t |-> "object", n |-> 0, s |-> name]

Truthy(v) ==
    CASE v.t = "undefined" -> FALSE
      [] v.t = "null" -> FALSE
      [] v.t = "boolean" -> v.n = 1
      [] v.t = "number" -> v.s # "NaN" /\ v.n # 0
      [] v.t = "string" -> v.s # ""
      [] OTHER -> TRUE

\* parseInt(x, 10) on the values of the model
DecimalStrings == [s \in {"0", "1", "2", "5"} |->
                     CASE s = "0" -> 0 [] s = "1" -> 1 [] s = "2" -> 2 [] s = "5" -> 5]

ParseInt(v) ==
    CASE v.t = "number" -> v
      [] v.t = "string" -> IF v.s \in DOMAIN DecimalStrings THEN Num(DecimalStrings[v.s]) ELSE NaN
      [] OTHER -> NaN

(***************************************************************************)
(* The component definition.  Two components share one declaration of      *)
(* contexts and props; "S" is flagged singleton, "N" is not.               *)
(***************************************************************************)
Contexts == {"iframe", "lightbox", "popup"}
Components == {"S", "N"}
Singleton(c) == c = "S"

PropKeys == <<"timeout", "label">>
PropNames == {PropKeys[k] : k \in 1..Len(PropKeys)}
NoFlags == [def |-> Undefined, defResult |-> Undefined, noop |-> FALSE,
            denodeify |-> FALSE, once |-> FALSE, memoize |-> FALSE]
Schema == [timeout |-> [type |-> "number"] @@ NoFlags,
           label   |-> [type |-> "string"] @@ NoFlags]

\* lib: own keys of an object
Own(props, key) == key \in DOMAIN props
Get(props, key) == IF Own(props, key) THEN props[key] ELSE Undefined

\* validateProps(component, props): an unknown or mistyped prop is refused
validateProps(schema, props) ==
    \A key \in DOMAIN props :
        /\ key \in DOMAIN schema
        /\ props[key].t \in {schema[key].type, "undefined", "null"}

\* the wrappers of a function prop; every wrapper and bind makes a new function
Wrap(v, how) == [v EXCEPT !.s = how, !.n = @ + 1]

normalizeProp(schema, props, key) ==
    LET prop == schema[key]
        value0 == Get(props, key)
        hasProp == Own(props, key) /\ value0.t \notin {"null", "undefined"} /\ value0 # Str("")
        \* prop.def() is called when the default is a function and the prop is not
        value == IF ~hasProp /\ Truthy(prop.def)
                 THEN (IF prop.def.t = "function" /\ prop.type # "function"
                       THEN prop.defResult ELSE prop.def)
                 ELSE value0
    IN  CASE prop.type = "boolean" -> Bool(Truthy(value))
          [] prop.type = "function" ->
                IF ~Truthy(value)
                THEN (IF prop.noop THEN Fn("noop") ELSE value)
                ELSE LET v1 == IF prop.denodeify THEN Wrap(value, "denodeify") ELSE value
                         v2 == IF prop.once THEN Wrap(v1, "once") ELSE v1
                         v3 == IF prop.memoize THEN Wrap(v2, "memoize") ELSE v2
                     IN  Wrap(v3, "bound")
          [] prop.type = "string" -> IF Truthy(value) THEN value ELSE Str("")
          [] prop.type = "object" -> value
          [] prop.type = "number" -> ParseInt(IF Truthy(value) THEN value ELSE Num(0))
          [] OTHER -> Undefined

normalizeProps(schema, props) ==
    [key \in DOMAIN schema |-> normalizeProp(schema, props, key)]

\* lib extend(obj, source): copy the own keys of source over obj
extend(obj, source) ==
    [key \in DOMAIN obj \cup DOMAIN source |->
        IF key \in DOMAIN source THEN source[key] ELSE obj[key]]

\* lib stringifyWithFunctions: JSON text of the props, keys in declaration
\* order, a function by its text, undefined values left out, NaN as null
JsonOf(v) ==
    CASE v.t = "number" /\ v.s = "NaN" -> [j |-> "null", n |-> 0, s |-> ""]
      [] v.t = "null" -> [j |-> "null", n |-> 0, s |-> ""]
      [] OTHER -> [j |-> v.t, n |-> v.n, s |-> v.s]

stringifyWithFunctions(props) ==
    LET keep == SelectSeq(PropKeys, LAMBDA key : Own(props, key) /\ props[key].t # "undefined")
    IN  [k \in 1..Len(keep) |-> <<keep[k], JsonOf(props[keep[k]])>>]

(***************************************************************************)
(* The launch URL.  A URL is a string; the strings with a "?" in them are  *)
(* listed, and so are the texts Number.toString, JSON.stringify and        *)
(* urlEncode produce for the values of the model.                          *)
(***************************************************************************)
ComponentUrl == "https://x.example/"
EnvUrls == [prod |-> "https://x.example/run"]
UrlsWithQuery == {"https://y.example/?v=2"}

NumberToString == [n \in {0, 1, 2, 5} |->
                     CASE n = 0 -> "0" [] n = 1 -> "1" [] n = 2 -> "2" [] n = 5 -> "5"]
JsonStringify == [o |-> "{\"a\":1}"]
Encoded == [s \in {"a b", "{\"a\":1}", "https://y.example/?v=2"} |->
              CASE s = "a b" -> "a%20b"
                [] s = "{\"a\":1}" -> "%7B%22a%22%3A1%7D"
                [] s = "https://y.example/?v=2" -> "https%3A%2F%2Fy.example%2F%3Fv%3D2"]

\* lib urlEncode
urlEncode(str) == IF str \in DOMAIN Encoded THEN Encoded[str] ELSE str

\* the text one key contributes to the query; "" is what filter(Boolean) drops
\* (the '' of an empty value and the undefined of a function)
QueryPart(key, value) ==
    IF ~Truthy(value) THEN ""
    ELSE CASE value.t = "boolean" -> urlEncode(key) \o "=" \o urlEncode("1")
           [] value.t = "string" -> urlEncode(key) \o "=" \o urlEncode(value.s)
           [] value.t = "function" -> ""
           [] value.t = "object" -> urlEncode(key) \o "=" \o urlEncode(JsonStringify[value.s])
           [] value.t = "number" -> urlEncode(key) \o "=" \o urlEncode(NumberToString[value.n])
           [] OTHER -> ""

RECURSIVE Join(_)
Join(parts) ==
    IF parts = <<>> THEN ""
    ELSE IF Len(parts) = 1 THEN Head(parts)
    ELSE Head(parts) \o "&" \o Join(Tail(parts))

\* propsToQuery(props): keys is Object.keys(props)
propsToQuery(keys, props) ==
    Join(SelectSeq([k \in 1..Len(keys) |-> QueryPart(keys[k], props[keys[k]])],
                   LAMBDA part : part # ""))

TypeError == [t |-> "TypeError", n |-> 0, s |-> ""]

buildUrlEnvFirst(keys, props) ==
    LET url == IF Truthy(Get(props, "env"))
               THEN (IF Get(props, "env").s \in DOMAIN EnvUrls
                     THEN Str(EnvUrls[Get(props, "env").s]) ELSE Undefined)
               ELSE IF Truthy(Get(props, "url")) THEN Get(props, "url")
               ELSE Str(ComponentUrl)
        queryString == propsToQuery(keys, props)
    IN  IF queryString = "" THEN url
        ELSE IF url.t # "string" THEN TypeError
        ELSE Str(url.s \o (IF url.s \notin UrlsWithQuery THEN "?" ELSE "&") \o queryString)

\* buildUrl(): the URL as a string value, undefined, or the TypeError of
\* undefined.indexOf
buildUrl(keys, props) ==
    LET url == IF Truthy(Get(props, "url")) THEN Get(props, "url")
               ELSE IF Truthy(Get(props, "env"))
               THEN (IF Get(props, "env").s \in DOMAIN EnvUrls
                     THEN Str(EnvUrls[Get(props, "env").s]) ELSE Undefined)
               ELSE Str(ComponentUrl)
        queryString == propsToQuery(keys, props)
    IN  IF queryString = "" THEN url
        ELSE IF url.t # "string" THEN TypeError
        ELSE Str(url.s \o (IF url.s \notin UrlsWithQuery THEN "?" ELSE "&") \o queryString)

(***************************************************************************)
(* State.                                                                  *)
(***************************************************************************)
VARIABLES
    contexts,          \* component.contexts: the allowed contexts
    defaultContext,    \* component.defaultContext, or None
    inChild,           \* this window has a parent window and a window.name
    activeComponents,  \* the module-level list (sequence of Instances)
    inst,              \* the fields of every Instance
    pc,                \* None, or the Instance whose error callback is running
    probe              \* a component declaration and raw props, through the
                       \* props pipeline: normalizeProps, propsToQuery, buildUrl

vars == <<contexts, defaultContext, inChild, activeComponents, inst, pc, probe>>

NoInstance ==
    [constructed |-> "no", comp |-> None, props |-> normalizeProps(Schema, <<>>),
     window |-> None, context |-> None, cleanupTasks |-> <<>>,
     onInit |-> "pending", handlers |-> <<>>, timers |-> 0,
     listening |-> 0, closeWatch |-> 0, unloadWatch |-> 0, overlay |-> 0,
     localSurf |-> 0, siblingSurf |-> 0,
     renderReq |-> <<>>, closeReq |-> 0, hijack |-> None,
     rendered |-> FALSE, destroyed |-> FALSE]

\* the world a handler of Instance i starts in; ev collects, in order, what
\* the handler calls, runs and sends
World(i, call) ==
    [ac |-> activeComponents, me |-> inst[i], thrown |-> FALSE,
     ev |-> <<<<"call", call>>>>]

Emit(w, kind, what) == [w EXCEPT !.ev = Append(@, <<kind, what>>)]
Throw(w) == [Emit(w, "throw", "") EXCEPT !.thrown = TRUE]

(***************************************************************************)
(* BaseComponent: the resource registry.                                   *)
(***************************************************************************)
registerForCleanup(w, task) == [w EXCEPT !.me.cleanupTasks = Append(@, task)]

\* Array.prototype.indexOf and splice(start, 1), on a 0-based index
IndexOf(seq, x) ==
    IF \E k \in 1..Len(seq) : seq[k] = x
    THEN (CHOOSE k \in 1..Len(seq) : seq[k] = x /\ \A m \in 1..(k - 1) : seq[m] # x) - 1
    ELSE -1

Splice1(seq, index) ==
    LET start == IF index < 0
                 THEN (IF Len(seq) + index < 0 THEN 0 ELSE Len(seq) + index)
                 ELSE (IF index > Len(seq) THEN Len(seq) ELSE index)
    IN  [k \in 1..(IF start < Len(seq) THEN Len(seq) - 1 ELSE Len(seq)) |->
            IF k <= start THEN seq[k] ELSE seq[k + 1]]

Dec(n) == IF n > 0 THEN n - 1 ELSE 0

\* the cleanup actions the code registers, by what they release
RunTask(w, i, task) ==
    LET w1 == Emit(w, "run", task)
    IN  CASE task = "unregister" ->
                [w1 EXCEPT !.ac = Splice1(w.ac, IndexOf(w.ac, i))]
          [] task = "context" -> [w1 EXCEPT !.me.context = None]
          [] task = "window" -> [w1 EXCEPT !.me.window = None]
          [] task = "surface" -> [w1 EXCEPT !.me.localSurf = 0]
          [] task = "listener" -> [w1 EXCEPT !.me.listening = Dec(@)]
          [] task = "watch" ->
                [w1 EXCEPT !.me.closeWatch = Dec(@), !.me.unloadWatch = Dec(@)]
          [] task = "overlay" -> [w1 EXCEPT !.me.overlay = Dec(@)]
          [] OTHER -> w1

RECURSIVE RunTasks(_, _, _)
RunTasks(w, i, tasks) ==
    IF tasks = <<>> THEN w
    ELSE RunTasks(RunTask(w, i, Head(tasks)), i, Tail(tasks))

cleanup(w, i) ==
    [RunTasks(w, i, w.me.cleanupTasks) EXCEPT !.me.cleanupTasks = <<>>]

setForCleanup(w, key, value) ==
    registerForCleanup(
        IF key = "context" THEN [w EXCEPT !.me.context = value]
                           ELSE [w EXCEPT !.me.window = value], key)

listen(w) ==
    registerForCleanup([Emit(w, "do", "listen") EXCEPT !.me.listening = @ + 1], "listener")

destroyKeepsRegistry(w, i) ==
    [Emit(w, "do", "destroy") EXCEPT !.me.rendered = FALSE, !.me.destroyed = TRUE]

\* destroy(); rendered and destroyed are history: a render has completed
\* since the last destroy, destroy has run
destroy(w, i) ==
    [cleanup(Emit(w, "do", "destroy"), i) EXCEPT !.me.rendered = FALSE, !.me.destroyed = TRUE]

(***************************************************************************)
(* Render drivers (RENDER_DRIVERS): what each context's open acquires and  *)
(* whether the context has an overlay.                                     *)
(***************************************************************************)
DriverOverlay(context) == context \in {"lightbox", "popup"}

\* open: create the surface, keep its window handle, pair both with a release
DriverOpen(w) ==
    LET w1 == [Emit(w, "do", "open") EXCEPT !.me.localSurf = 1]
    IN  registerForCleanup(setForCleanup(w1, "window", "local"), "surface")

(***************************************************************************)
(* ParentComponent.                                                        *)
(***************************************************************************)
setProps(w, props) ==
    IF ~validateProps(Schema, props) THEN Throw(w)
    ELSE [w EXCEPT !.me.props = normalizeProps(Schema, props)]

\* constructor(component, options): compOf gives the component of the
\* Instances in activeComponents
constructor(w, i, component, props, compOf) ==
    LET w1 == [w EXCEPT !.me.comp = component]
    IN  IF Singleton(component) /\ \E k \in 1..Len(w.ac) : compOf[w.ac[k]] = component
        THEN [Throw(w1) EXCEPT !.me.constructed = "failed"]
        ELSE LET w2 == registerForCleanup([w1 EXCEPT !.ac = Append(@, i)], "unregister")
                 w3 == setProps(w2, props)
             IN  IF w3.thrown THEN [w3 EXCEPT !.me.constructed = "failed"]
                 ELSE [w3 EXCEPT !.me.constructed = "yes", !.me.onInit = "pending"]

\* getRenderContext(el): the context, or "throw"
getRenderContext(el) ==
    IF el THEN (IF "iframe" \in contexts THEN "iframe" ELSE "throw")
    ELSE IF defaultContext = "lightbox" THEN "lightbox"
    ELSE IF defaultContext = "popup" THEN "popup"
    ELSE IF "lightbox" \in contexts THEN "lightbox"
    ELSE IF "popup" \in contexts THEN "popup"
    ELSE "throw"

validateRenderAnyWindow(me, context) ==
    context # None => context \in contexts

\* validateRender(context): TRUE when it does not throw
validateRender(me, context) ==
    /\ me.window = None
    /\ (context # None => context \in contexts)

watchForCloseUnpaired(w) ==
    [Emit(w, "do", "watchForClose") EXCEPT !.me.closeWatch = @ + 1,
                                           !.me.unloadWatch = @ + 1]

watchForClose(w) ==
    registerForCleanup(
        [Emit(w, "do", "watchForClose") EXCEPT !.me.closeWatch = @ + 1,
                                               !.me.unloadWatch = @ + 1], "watch")

open(w) == Emit(watchForClose(DriverOpen(w)), "do", "createComponentTemplate")

runTimeout(w) ==
    IF Truthy(w.me.props.timeout)
    THEN [Emit(w, "do", "setTimeout") EXCEPT !.me.timers = @ + 1]
    ELSE w

createOverlayTemplate(w) ==
    registerForCleanup([Emit(w, "do", "overlay") EXCEPT !.me.overlay = @ + 1], "overlay")

renderLoadsBeforeListening(w, el, context) ==
    IF ~validateRender(w.me, context) THEN Throw(w)
    ELSE LET ctx == IF context # None THEN context ELSE getRenderContext(el)
         IN  IF ctx = "throw" THEN Throw(w)
             ELSE LET w1 == setForCleanup(w, "context", ctx)
                      w2 == open(w1)
                      w3 == Emit(w2, "do", "loadUrl")
                      w4 == listen(w3)
                      w5 == runTimeout(w4)
                      w6 == IF DriverOverlay(ctx) THEN createOverlayTemplate(w5) ELSE w5
                  IN  [watchForClose(w6) EXCEPT !.me.rendered = TRUE]

render(w, el, context) ==
    IF ~validateRender(w.me, context) THEN Throw(w)
    ELSE LET ctx == IF context # None THEN context ELSE getRenderContext(el)
         IN  IF ctx = "throw" THEN Throw(w)
             ELSE LET w1 == setForCleanup(w, "context", ctx)
                      w2 == open(w1)
                      w3 == listen(w2)
                      w4 == Emit(w3, "do", "loadUrl")
                      w5 == runTimeout(w4)
                      w6 == IF DriverOverlay(ctx) THEN createOverlayTemplate(w5) ELSE w5
                  IN  [watchForClose(w6) EXCEPT !.me.rendered = TRUE]

renderHijack(w, context) ==
    IF ~validateRender(w.me, context) THEN Throw(w)
    ELSE LET w1 == setForCleanup(w, "context", context)
             w2 == open(w1)
             w3 == listen(w2)
             w4 == runTimeout(w3)
             w5 == IF DriverOverlay(context) THEN createOverlayTemplate(w4) ELSE w4
         IN  [w5 EXCEPT !.me.rendered = TRUE]

\* the click handler hijackButton attaches
hijackClick(w) ==
    IF w.me.window # None THEN Throw(w) ELSE renderHijack(w, w.me.hijack)

renderToParent(w, el, context) ==
    IF ~validateRender(w.me, context) THEN Throw(w)
    ELSE LET ctx == IF context # None THEN context ELSE getRenderContext(el)
         IN  IF ctx = "throw" \/ ~inChild THEN Throw(w)
             ELSE LET w1 == setForCleanup(w, "context", ctx)
                      \* the popup driver opens the window before the request is sent
                      w2 == IF ctx = "popup" THEN open(w1) ELSE w1
                  IN  [Emit(w2, "send", "RENDER") EXCEPT
                          !.me.renderReq = Append(@, IF ctx = "popup" THEN "popup" ELSE "frame")]

\* the handler of the reply to RENDER; the parent window has rendered the
\* sibling surface, a frame or a popup (a popup of the same name is the popup
\* already open)
renderReply(w, kind) ==
    LET w0 == IF kind = "popup" /\ w.me.localSurf = 1 THEN w
              ELSE [w EXCEPT !.me.siblingSurf = @ + 1]
        w1 == IF w0.me.window = None THEN setForCleanup(w0, "window", "sibling") ELSE w0
    IN  watchForClose(listen(w1))

updatePropsThenAlwaysSends(w, props) ==
    LET newProps == extend(extend(<<>>, w.me.props), props)
        w1 == setProps(w, newProps)
        w2 == Emit(w1, "props", IF w1.me.props # w.me.props THEN "changed" ELSE "same")
    IN  IF w1.thrown THEN w1
        ELSE IF w1.me.window # None THEN Emit(w2, "send", "PROPS") ELSE w2

\* the body updateProps runs once onInit is resolved
updatePropsThen(w, props) ==
    LET oldProps == stringifyWithFunctions(w.me.props)
        newProps == extend(extend(<<>>, w.me.props), props)
        w1 == setProps(w, newProps)
        w2 == Emit(w1, "props", IF w1.me.props # w.me.props THEN "changed" ELSE "same")
    IN  IF w1.thrown THEN w1
        ELSE IF w1.me.window # None /\ oldProps # stringifyWithFunctions(w1.me.props)
        THEN Emit(w2, "send", "PROPS")
        ELSE w2

RECURSIVE RunHandlers(_, _)
RunHandlers(w, hs) ==
    IF hs = <<>> THEN w ELSE RunHandlers(updatePropsThen(w, Head(hs)), Tail(hs))

\* onInit.resolve(): settles once, then runs the queued handlers in order
resolveInit(w) ==
    IF w.me.onInit # "pending" THEN w
    ELSE RunHandlers([w EXCEPT !.me.onInit = "resolved", !.me.handlers = <<>>], w.me.handlers)

\* listeners[INIT]: the enter callback, then the resolution
initListener(w) == resolveInit(Emit(w, "cb", "onEnter"))

updateProps(w, props) ==
    IF ~validateProps(Schema, props) THEN Throw(w)
    ELSE CASE w.me.onInit = "pending" -> [w EXCEPT !.me.handlers = Append(@, props)]
           [] w.me.onInit = "resolved" -> updatePropsThen(w, props)
           [] OTHER -> w

timeoutExpiredNoDestroy(w, i) ==
    LET w1 == IF w.me.onInit = "pending"
              THEN [w EXCEPT !.me.onInit = "rejected", !.me.handlers = <<>>] ELSE w
    IN  IF w1.me.onInit = "rejected" THEN Emit(w1, "cb", "onTimeout") ELSE w1

\* the callback runTimeout hands to setTimeout
timeoutExpired(w, i) ==
    LET w1 == IF w.me.onInit = "pending"
              THEN [w EXCEPT !.me.onInit = "rejected", !.me.handlers = <<>>] ELSE w
    IN  IF w1.me.onInit = "rejected"
        THEN destroy(Emit(w1, "cb", "onTimeout"), i)
        ELSE w1

closePushesProps(w) ==
    LET w1 == Emit(Emit(w, "cb", "onClose"), "send", "PROPS")
    IN  [Emit(w1, "send", "CLOSE") EXCEPT !.me.closeReq = @ + 1]

\* the callback watchForClose hands to onCloseWindow
closeObserved(w, i) == destroy(Emit(w, "cb", "onClose"), i)

\* close(): the callback, then the request
close(w) ==
    LET w1 == Emit(w, "cb", "onClose")
    IN  [Emit(w1, "send", "CLOSE") EXCEPT !.me.closeReq = @ + 1]

(***************************************************************************)
(* Inputs.                                                                 *)
(***************************************************************************)
\* the pages the model runs on: the component's contexts and default context,
\* and whether the page is itself a rendered child window
Pages ==
    {[contexts |-> {"iframe", "lightbox", "popup"}, defaultContext |-> None, inChild |-> TRUE],
     [contexts |-> {"iframe", "lightbox"}, defaultContext |-> None, inChild |-> TRUE],
     [contexts |-> {"popup"}, defaultContext |-> "lightbox", inChild |-> FALSE]}
HijackContexts == {"lightbox"}
CtorProps == {<<>>, ("timeout" :> Num(5)), ("bogus" :> Num(1))}
UpdateInputs == {("label" :> Str("a")), ("label" :> Str("")), ("label" :> Num(1))}

\* the declarations of the props pipeline: url and env, and one more prop x
\* of every type, with and without a default, a function with its flags
ProbeKeys == <<"url", "env", "x">>
Decls ==
    {[type |-> "boolean"] @@ [NoFlags EXCEPT !.def = d] : d \in {Undefined, Bool(TRUE)}}
    \cup {[type |-> "boolean"] @@ [NoFlags EXCEPT !.def = Fn("mk"), !.defResult = Bool(TRUE)]}
    \cup {[type |-> "string"] @@ [NoFlags EXCEPT !.def = d] : d \in {Undefined, Str("a b")}}
    \cup {[type |-> "number"] @@ [NoFlags EXCEPT !.def = d] : d \in {Undefined, Num(2)}}
    \cup {[type |-> "object"] @@ [NoFlags EXCEPT !.def = d] : d \in {Undefined, Obj("o")}}
    \cup {[type |-> "function"] @@
            [NoFlags EXCEPT !.def = d, !.noop = f[1], !.denodeify = f[2],
                            !.once = f[3], !.memoize = f[4]] :
            d \in {Undefined, Fn("f")},
            f \in {<<FALSE, FALSE, FALSE, FALSE>>, <<TRUE, FALSE, FALSE, FALSE>>,
                   <<FALSE, TRUE, TRUE, TRUE>>, <<TRUE, FALSE, TRUE, FALSE>>}}

ProbeSchema(decl) ==
    [url |-> [type |-> "string"] @@ NoFlags,
     env |-> [type |-> "string"] @@ NoFlags,
     x   |-> decl]

\* raw props: a key is absent or has a value of its declared type
Absent == [t |-> "absent", n |-> 0, s |-> ""]
RawValues(type) ==
    {Absent} \cup
    CASE type = "boolean" -> {Bool(TRUE), Bool(FALSE)}
      [] type = "string" -> {Str(""), Str("a b")}
      [] type = "number" -> {Num(0), Num(5), NaN}
      [] type = "object" -> {Obj("o"), Null}
      [] type = "function" -> {Fn("g")}
RawUrls == {Absent, Str("https://y.example/?v=2")}
RawEnvs == {Absent, Str("prod"), Str("dev")}
RawProps(url, env, x) ==
    LET all == [url |-> url, env |-> env, x |-> x]
    IN  [key \in {k \in DOMAIN all : all[k] # Absent} |-> all[key]]

NoProbe == [stage |-> "none", schema |-> ProbeSchema(CHOOSE d \in Decls : d.type = "string"),
            raw |-> <<>>, props |-> normalizeProps(Schema, <<>>),
            again |-> normalizeProps(Schema, <<>>), query |-> "", url |-> Undefined]

Init ==
    /\ \E page \in Pages :
          /\ contexts = page.contexts
          /\ defaultContext = page.defaultContext
          /\ inChild = page.inChild
    /\ activeComponents = <<>>
    /\ inst = [i \in Instances |-> NoInstance]
    /\ pc = None
    /\ probe = NoProbe

\* a handler of Instance i ends in world w
Commit(i, w) ==
    /\ inst' = [inst EXCEPT ![i] = w.me]
    /\ activeComponents' = w.ac
    /\ UNCHANGED <<contexts, defaultContext, inChild, probe>>

Live(i) == inst[i].constructed = "yes"
CanArm(i) == Truthy(inst[i].props.timeout) => inst[i].timers < MaxTimers

(***************************************************************************)
(* Actions: one per call of the API, message, timer or reply.              *)
(***************************************************************************)
Construct(i, component, props) ==
    /\ pc = None /\ inst[i].constructed = "no"
    /\ Commit(i, constructor(World(i, "new"), i, component, props,
                             [j \in Instances |-> inst[j].comp]))
    /\ UNCHANGED pc

Render(i, el, context) ==
    /\ pc = None /\ Live(i) /\ CanArm(i)
    /\ Commit(i, render(World(i, "render"), el, context))
    /\ UNCHANGED pc

RenderToParent(i, el, context) ==
    /\ pc = None /\ Live(i)
    /\ inst[i].siblingSurf + Len(inst[i].renderReq) < MaxInFlight
    /\ Len(inst[i].cleanupTasks) < MaxRegistry
    /\ Commit(i, renderToParent(World(i, "renderToParent"), el, context))
    /\ UNCHANGED pc

RenderReply(i) ==
    /\ pc = None /\ inst[i].renderReq # <<>>
    /\ LET w == World(i, "renderReply")
       IN  Commit(i, renderReply([w EXCEPT !.me.renderReq = Tail(@)], Head(inst[i].renderReq)))
    /\ UNCHANGED pc

RenderFail(i) ==
    /\ pc = None /\ inst[i].renderReq # <<>>
    /\ LET w == World(i, "renderFail")
       IN  Commit(i, [w EXCEPT !.me.renderReq = Tail(@)])
    /\ UNCHANGED pc

HijackButton(i, found, context) ==
    /\ pc = None /\ Live(i) /\ inst[i].hijack = None
    /\ LET w == World(i, "hijackButton")
       IN  Commit(i, IF found THEN [w EXCEPT !.me.hijack = context] ELSE Throw(w))
    /\ UNCHANGED pc

HijackClick(i) ==
    /\ pc = None /\ inst[i].hijack # None /\ CanArm(i)
    /\ Commit(i, hijackClick(World(i, "click")))
    /\ UNCHANGED pc

TimerFires(i) ==
    /\ pc = None /\ inst[i].timers > 0
    /\ LET w == World(i, "timeout")
       IN  Commit(i, timeoutExpired([w EXCEPT !.me.timers = @ - 1], i))
    /\ UNCHANGED pc

RecvInit(i) ==
    /\ pc = None /\ inst[i].listening > 0
    /\ Commit(i, initListener(World(i, "INIT")))
    /\ UNCHANGED pc

RecvClose(i) ==
    /\ pc = None /\ inst[i].listening > 0 /\ inst[i].closeReq < MaxCloseInFlight
    /\ Commit(i, close(World(i, "CLOSE")))
    /\ UNCHANGED pc

\* close() by the caller; without a window the transport throws or rejects
Close(i, throws) ==
    /\ pc = None /\ Live(i) /\ inst[i].closeReq < MaxCloseInFlight
    /\ throws => inst[i].window = None
    /\ LET w == World(i, "close")
       IN  Commit(i, IF throws THEN Throw(Emit(w, "cb", "onClose")) ELSE close(w))
    /\ UNCHANGED pc

CloseReplyFailureFatal(i, delivered) ==
    /\ pc = None /\ inst[i].closeReq > 0
    /\ LET w == World(i, "closeReply")
           w1 == [w EXCEPT !.me.closeReq = @ - 1]
       IN  Commit(i, IF delivered THEN destroy(w1, i) ELSE Emit(w1, "cb", "onError"))
    /\ UNCHANGED pc

CloseReply(i, delivered) ==
    /\ pc = None /\ inst[i].closeReq > 0
    /\ LET w == World(i, "closeReply")
           w1 == [w EXCEPT !.me.closeReq = @ - 1]
       IN  Commit(i, destroy(IF delivered THEN w1 ELSE Emit(w1, "do", "warn"), i))
    /\ UNCHANGED pc

Destroy(i) ==
    /\ pc = None /\ Live(i)
    /\ Commit(i, destroy(World(i, "destroy"), i))
    /\ UNCHANGED pc

\* error(err), called locally or by the ERROR listener: the callback runs ...
Error(i) ==
    /\ pc = None /\ Live(i)
    /\ Commit(i, Emit(World(i, "error"), "cb", "onError"))
    /\ pc' = i

RecvError(i) ==
    /\ pc = None /\ inst[i].listening > 0
    /\ Commit(i, Emit(World(i, "ERROR"), "cb", "onError"))
    /\ pc' = i

\* ... and when it has returned, error destroys
ErrorReturn(i) ==
    /\ pc = i
    /\ Commit(i, destroy(World(i, "errorReturn"), i))
    /\ pc' = None

UpdateProps(i, props) ==
    /\ pc = None /\ Live(i)
    /\ inst[i].onInit = "pending" => Len(inst[i].handlers) < MaxQueued
    /\ Commit(i, updateProps(World(i, "updateProps"), props))
    /\ UNCHANGED pc

\* the surface the window handle refers to is closed from outside and the
\* observer of watchForClose sees it
ExternalClose(i) ==
    /\ pc = None /\ inst[i].closeWatch > 0
    /\ \/ inst[i].window = "local" /\ inst[i].localSurf = 1
       \/ inst[i].window = "sibling" /\ inst[i].siblingSurf > 0
    /\ LET w == World(i, "windowClosed")
           w1 == IF inst[i].window = "local" THEN [w EXCEPT !.me.localSurf = 0]
                 ELSE [w EXCEPT !.me.siblingSurf = @ - 1]
       IN  Commit(i, closeObserved(w1, i))
    /\ UNCHANGED pc

\* a sibling surface this Instance holds no handle of goes away
SiblingClosed(i) ==
    /\ pc = None /\ inst[i].siblingSurf > 0 /\ inst[i].window # "sibling"
    /\ LET w == World(i, "siblingClosed")
       IN  Commit(i, [w EXCEPT !.me.siblingSurf = @ - 1])
    /\ UNCHANGED pc

Step(i) ==
    \/ \E component \in Components, props \in CtorProps : Construct(i, component, props)
    \/ \E el \in BOOLEAN, context \in Contexts \cup {None} : Render(i, el, context)
    \/ \E el \in BOOLEAN, context \in Contexts \cup {None} : RenderToParent(i, el, context)
    \/ RenderReply(i)
    \/ RenderFail(i)
    \/ \E found \in BOOLEAN, context \in HijackContexts : HijackButton(i, found, context)
    \/ HijackClick(i)
    \/ TimerFires(i)
    \/ RecvInit(i)
    \/ RecvClose(i)
    \/ \E throws \in BOOLEAN : Close(i, throws)
    \/ \E delivered \in BOOLEAN : CloseReply(i, delivered)
    \/ Destroy(i)
    \/ Error(i)
    \/ RecvError(i)
    \/ ErrorReturn(i)
    \/ ExternalClose(i)
    \/ SiblingClosed(i)

Next == \E i \in Focus : Step(i)

Spec == Init /\ [][Next]_vars

\* two Instances, through construction, render, timeout, error and destroy
PairStep(i) ==
    \/ \E component \in Components, props \in CtorProps : Construct(i, component, props)
    \/ \E el \in BOOLEAN, context \in Contexts \cup {None} : Render(i, el, context)
    \/ TimerFires(i)
    \/ Destroy(i)
    \/ Error(i)
    \/ ErrorReturn(i)

NextPair == \E i \in Instances : PairStep(i)

SpecPair == Init /\ [][NextPair]_vars

\* one Instance, through render, the init handshake and updateProps
PropsStep(i) ==
    \/ \E component \in Components, props \in CtorProps : Construct(i, component, props)
    \/ \E el \in BOOLEAN, context \in Contexts \cup {None} : Render(i, el, context)
    \/ \E el \in BOOLEAN, context \in Contexts \cup {None} : RenderToParent(i, el, context)
    \/ RenderReply(i)
    \/ RenderFail(i)
    \/ TimerFires(i)
    \/ RecvInit(i)
    \/ \E props \in UpdateInputs : UpdateProps(i, props)
    \/ Destroy(i)

NextProps == \E i \in Focus : PropsStep(i)

SpecProps == Init /\ [][NextProps]_vars

\* one Instance, through render and every way it is closed or destroyed
CloseStep(i) ==
    \/ \E component \in Components, props \in CtorProps : Construct(i, component, props)
    \/ \E el \in BOOLEAN, context \in Contexts \cup {None} : Render(i, el, context)
    \/ TimerFires(i)
    \/ RecvInit(i)
    \/ RecvClose(i)
    \/ \E throws \in BOOLEAN : Close(i, throws)
    \/ \E delivered \in BOOLEAN : CloseReply(i, delivered)
    \/ Destroy(i)
    \/ Error(i)
    \/ RecvError(i)
    \/ ErrorReturn(i)
    \/ ExternalClose(i)

NextClose == \E i \in Focus : CloseStep(i)

\* the transport settles every request, whatever else happens meanwhile, and
\* a callback returns
FairClose ==
    /\ Init /\ [][NextClose]_vars
    /\ \A i \in Focus : SF_vars(\E delivered \in BOOLEAN : CloseReply(i, delivered))
    /\ \A i \in Focus : WF_vars(ErrorReturn(i))

\* one Instance, through the handlers that talk to the child surface: render,
\* the init handshake, updateProps and close
MsgStep(i) ==
    \/ \E component \in Components, props \in CtorProps : Construct(i, component, props)
    \/ \E el \in BOOLEAN, context \in Contexts \cup {None} : Render(i, el, context)
    \/ TimerFires(i)
    \/ RecvInit(i)
    \/ \E props \in UpdateInputs : UpdateProps(i, props)
    \/ RecvClose(i)
    \/ \E throws \in BOOLEAN : Close(i, throws)
    \/ \E delivered \in BOOLEAN : CloseReply(i, delivered)
    \/ Destroy(i)

NextMsgs == \E i \in Focus : MsgStep(i)

SpecMsgs == Init /\ [][NextMsgs]_vars

\* every component declaration of contexts and default context, through
\* construction, render and destroy
InitContexts ==
    /\ contexts \in SUBSET Contexts \ {{}}
    /\ defaultContext \in Contexts \cup {None}
    /\ inChild = FALSE
    /\ activeComponents = <<>>
    /\ inst = [i \in Instances |-> NoInstance]
    /\ pc = None
    /\ probe = NoProbe

ContextStep(i) ==
    \/ \E props \in CtorProps : Construct(i, "N", props)
    \/ \E el \in BOOLEAN, context \in Contexts \cup {None} : Render(i, el, context)
    \/ Destroy(i)

NextContexts == \E i \in Focus : ContextStep(i)

SpecContexts == InitContexts /\ [][NextContexts]_vars

\* the props pipeline on one declaration and one raw props object:
\* setProps normalizes, then builds the URL from the query of the props;
\* updateProps hands the normalized props to setProps again
InitPipeline ==
    /\ contexts = Contexts /\ defaultContext = None /\ inChild = FALSE
    /\ activeComponents = <<>>
    /\ inst = [i \in Instances |-> NoInstance]
    /\ pc = None
    /\ \E decl \in Decls, url \in RawUrls, env \in RawEnvs :
          \E x \in RawValues(decl.type) :
              probe = [NoProbe EXCEPT !.stage = "raw", !.schema = ProbeSchema(decl),
                                      !.raw = RawProps(url, env, x)]

NormalizeProps ==
    /\ probe.stage = "raw"
    /\ probe' = [probe EXCEPT !.stage = "normalized",
                               !.props = normalizeProps(probe.schema, probe.raw)]
    /\ UNCHANGED <<contexts, defaultContext, inChild, activeComponents, inst, pc>>

PropsToQuery ==
    /\ probe.stage = "normalized"
    /\ probe' = [probe EXCEPT !.stage = "query",
                               !.query = propsToQuery(ProbeKeys, probe.props)]
    /\ UNCHANGED <<contexts, defaultContext, inChild, activeComponents, inst, pc>>

BuildUrl ==
    /\ probe.stage = "query"
    /\ probe' = [probe EXCEPT !.stage = "url", !.url = buildUrl(ProbeKeys, probe.props)]
    /\ UNCHANGED <<contexts, defaultContext, inChild, activeComponents, inst, pc>>

NormalizeAgain ==
    /\ probe.stage = "url"
    /\ probe' = [probe EXCEPT !.stage = "again",
                               !.again = normalizeProps(probe.schema, probe.props)]
    /\ UNCHANGED <<contexts, defaultContext, inChild, activeComponents, inst, pc>>

NextPipeline == NormalizeProps \/ PropsToQuery \/ BuildUrl \/ NormalizeAgain

SpecPipeline == InitPipeline /\ [][NextPipeline]_vars

(***************************************************************************)
(* Properties.                                                             *)
(***************************************************************************)
Has(log, kind, what) == \E k \in 1..Len(log) : log[k] = <<kind, what>>
Count(log, kind, what) == Cardinality({k \in 1..Len(log) : log[k] = <<kind, what>>})
Ran(log) ==
    LET runs == SelectSeq(log, LAMBDA e : e[1] = "run")
    IN  [k \in 1..Len(runs) |-> runs[k][2]]
Without(seq, x) == SelectSeq(seq, LAMBDA y : y # x)

\* C1: once render has completed on an Instance and destroy has not run since,
\* a call of render, with any element and any context or none, throws and
\* leaves the Instance and the list as they were (no second surface)
C1_RenderTwiceThrows ==
    \A i \in Instances, el \in BOOLEAN, context \in Contexts \cup {None} :
        (Live(i) /\ inst[i].rendered) =>
            LET w == render(World(i, "render"), el, context)
            IN  w.thrown /\ w.me = inst[i] /\ w.ac = activeComponents

C1_Witness ==
    \E i \in Instances :
        inst[i].rendered /\ inst[i].window = "local" /\ inst[i].localSurf = 1

\* C2: a render whose context, given or resolved, is not among the allowed
\* contexts throws and leaves the Instance unchanged
C2_DisallowedContextThrows ==
    \A i \in Instances, el \in BOOLEAN, context \in Contexts \cup {None} :
        LET target == IF context # None THEN context ELSE getRenderContext(el)
            w == render(World(i, "render"), el, context)
        IN  (Live(i) /\ target \notin contexts) =>
                (w.thrown /\ w.me = inst[i] /\ w.ac = activeComponents)

\* C3: the construction of an Instance of the singleton component throws
\* exactly when an earlier Instance of it was constructed and is not destroyed
C3_SingletonConstruction ==
    \A i \in Instances :
        inst[i].constructed = "no" =>
            LET w == constructor(World(i, "new"), i, "S", <<>>,
                                 [j \in Instances |-> inst[j].comp])
            IN  w.thrown <=>
                    \E j \in Instances :
                        /\ inst[j].comp = "S" /\ inst[j].constructed = "yes"
                        /\ ~inst[j].destroyed

\* C4: when the timer of a render expires and INIT has not been received, the
\* init future is rejected, the timeout callback is invoked exactly once, the
\* Instance is destroyed and its registry is empty
C4_TimeoutSettles ==
    [][\A i \in Instances :
        (inst[i].onInit # "resolved" /\ inst'[i].timers < inst[i].timers /\ TimerFires(i)) =>
            LET w == timeoutExpired(World(i, "timeout"), i)
            IN  /\ inst'[i].onInit = "rejected"
                /\ Count(w.ev, "cb", "onTimeout") = 1
                /\ Has(w.ev, "do", "destroy")
                /\ inst'[i].destroyed
                /\ inst'[i].cleanupTasks = <<>>
                /\ inst'[i].window = None /\ inst'[i].listening = 0]_vars

C4_Witness ==
    \E i \in Instances :
        inst[i].onInit = "rejected" /\ inst[i].destroyed /\ inst[i].cleanupTasks = <<>>

\* C5: an updateProps call made while the init future is pending sends
\* nothing; when INIT resolves it, every queued call runs once, in order, and
\* sends PROPS exactly when its merge changed the props; a call whose merge
\* leaves the props as they are sends nothing
C5_PropsAfterInit ==
    /\ [](\A i \in Instances, props \in UpdateInputs :
            LET w == updateProps(World(i, "updateProps"), props)
            IN  /\ (Live(i) /\ inst[i].onInit = "pending") =>
                      ~Has(w.ev, "send", "PROPS")
                /\ (Live(i) /\ inst[i].onInit = "resolved" /\ w.me.props = inst[i].props) =>
                      ~Has(w.ev, "send", "PROPS"))
    /\ [][\A i \in Instances :
            (inst[i].onInit = "pending" /\ inst'[i].onInit = "resolved" /\ RecvInit(i)) =>
              LET log == initListener(World(i, "INIT")).ev
              IN  /\ Count(log, "props", "changed") + Count(log, "props", "same")
                        = Len(inst[i].handlers)
                  /\ Count(log, "send", "PROPS") = Count(log, "props", "changed")
                  /\ \A k \in 1..Len(log) :
                        /\ log[k] = <<"props", "changed">> =>
                              (k < Len(log) /\ log[k + 1] = <<"send", "PROPS">>)
                        /\ log[k] = <<"props", "same">> =>
                              (k = Len(log) \/ log[k + 1] # <<"send", "PROPS">>)]_vars

C5_Witness ==
    \E i \in Instances :
        /\ inst[i].onInit = "resolved" /\ inst[i].window # None
        /\ inst[i].props.label = Str("a")

\* C6: destroy runs every registered cleanup action once, in registration
\* order, and empties the registry; it takes this Instance, and no other, out
\* of activeComponents; a destroy that finds the registry empty changes nothing
C6_DestroyRunsRegistryOnce ==
    [][\A i \in Instances :
        Destroy(i) =>
            LET w == destroy(World(i, "destroy"), i)
            IN  /\ Ran(w.ev) = inst[i].cleanupTasks
                /\ inst'[i].cleanupTasks = <<>>
                /\ activeComponents' = Without(activeComponents, i)
                /\ (inst[i].destroyed /\ inst[i].cleanupTasks = <<>>) => UNCHANGED vars]_vars

C6_Witness ==
    \E i, j \in Instances :
        /\ i # j
        /\ inst[i].destroyed /\ inst[i].cleanupTasks = <<>>
        /\ inst[j].constructed = "yes" /\ ~inst[j].destroyed /\ inst[j].rendered
        /\ activeComponents = <<j>>

TornDown(me, ac, i) ==
    /\ me.window = None /\ me.localSurf = 0
    /\ me.listening = 0 /\ me.closeWatch = 0 /\ me.unloadWatch = 0
    /\ me.overlay = 0
    /\ \A k \in 1..Len(ac) : ac[k] # i

\* C7 (as stated): while the error callback of an Instance is running, and so
\* when it returns, the Instance is fully torn down
C7_TornDownWhenCallbackReturns ==
    \A i \in Instances : pc = i => TornDown(inst[i], activeComponents, i)

\* C7 (amended): the Instance is fully torn down when error() returns, that
\* is right after the error callback has returned
C7_TornDownWhenErrorReturns ==
    [][\A i \in Instances :
        ErrorReturn(i) => TornDown(inst'[i], activeComponents', i)]_vars

C7_Witness ==
    \E i \in Instances : pc = i /\ inst[i].rendered /\ inst[i].overlay > 0

\* C8: close() invokes the close callback, then sends CLOSE; whether the
\* request is delivered or fails, its settlement destroys the Instance and
\* invokes no error callback, so an Instance with a request in flight is
\* eventually destroyed
C8_CloseDestroys ==
    /\ [][\A i \in Instances :
            /\ Close(i, FALSE) =>
                  /\ close(World(i, "close")).ev
                        = <<<<"call", "close">>, <<"cb", "onClose">>, <<"send", "CLOSE">>>>
                  /\ inst'[i].closeReq = inst[i].closeReq + 1
            /\ \A delivered \in BOOLEAN :
                  CloseReply(i, delivered) =>
                      /\ inst'[i].destroyed /\ inst'[i].cleanupTasks = <<>>
                      /\ inst'[i].window = None
                      /\ pc' = None]_vars
    /\ \A i \in Focus :
          (inst[i].closeReq > 0) ~> (inst[i].cleanupTasks = <<>> /\ inst[i].window = None)

C8_Witness ==
    \E i \in Instances :
        inst[i].closeReq > 0 /\ inst[i].rendered /\ inst[i].window # None

\* C9: an Instance has at most one live surface
C9_OneSurface ==
    \A i \in Instances : inst[i].localSurf + inst[i].siblingSurf <= 1

\* C10: once destroy has run on an Instance it holds no surface and no
\* listener again
C10_DestroyedIsTerminal ==
    \A i \in Instances :
        inst[i].destroyed =>
            inst[i].window = None /\ inst[i].localSurf = 0 /\ inst[i].listening = 0

\* the messages a handler sends to the child surface, in order (RENDER goes to
\* the parent window)
ChildSends(log) ==
    LET sends == SelectSeq(log, LAMBDA e : e[1] = "send" /\ e[2] # "RENDER")
    IN  [k \in 1..Len(sends) |-> sends[k][2]]

\* C11 (as stated): the parent never has a CLOSE request to the child surface
\* in flight
C11_NeverSendsClose ==
    \A i \in Instances : inst[i].closeReq = 0

\* C11 (amended): in every state, the handlers of an Instance send to the child
\* surface only PROPS and CLOSE: close() sends exactly one CLOSE, updateProps
\* and the resolution of the init future send only PROPS, and PROPS only once
\* the init future is resolved; construction, render, renderToParent and its
\* reply, the hijack click, the timeout and destroy send the child nothing
C11_ParentSendsPropsAndClose ==
    \A i \in Instances :
        /\ ChildSends(close(World(i, "close")).ev) = <<"CLOSE">>
        /\ \A props \in UpdateInputs :
              LET w == updateProps(World(i, "updateProps"), props)
              IN  /\ \A k \in 1..Len(ChildSends(w.ev)) : ChildSends(w.ev)[k] = "PROPS"
                  /\ ChildSends(w.ev) # <<>> => inst[i].onInit = "resolved"
        /\ LET w == resolveInit(Emit(World(i, "INIT"), "cb", "onEnter"))
           IN  /\ \A k \in 1..Len(ChildSends(w.ev)) : ChildSends(w.ev)[k] = "PROPS"
               /\ ChildSends(w.ev) # <<>> => w.me.onInit = "resolved"
        /\ \A el \in BOOLEAN, context \in Contexts \cup {None} :
              /\ ChildSends(render(World(i, "render"), el, context).ev) = <<>>
              /\ ChildSends(renderToParent(World(i, "renderToParent"), el, context).ev) = <<>>
        /\ \A kind \in {"popup", "frame"} :
              ChildSends(renderReply(World(i, "renderReply"), kind).ev) = <<>>
        /\ \A context \in Contexts :
              ChildSends(renderHijack(World(i, "click"), context).ev) = <<>>
        /\ ChildSends(timeoutExpired(World(i, "timeout"), i).ev) = <<>>
        /\ ChildSends(destroy(World(i, "destroy"), i).ev) = <<>>
        /\ \A component \in Components, props \in CtorProps :
              ChildSends(constructor(World(i, "new"), i, component, props,
                                     [j \in Instances |-> inst[j].comp]).ev) = <<>>

\* a close request is in flight to the surface of an Instance whose init
\* future is resolved and whose props an update has changed
C11_Witness ==
    \E i \in Instances :
        /\ inst[i].closeReq > 0 /\ inst[i].window # None
        /\ inst[i].onInit = "resolved" /\ inst[i].props.label = Str("a")

\* C12: when the transport rejects the RENDER request of renderToParent, the
\* error flow of the Instance starts: its error callback runs (and destroy
\* follows when the callback returns)
C12_RenderFailureReachesError ==
    [][\A i \in Instances : RenderFail(i) => pc' = i]_vars

\* the reference of C13: the context render resolves when none is given
ContextReference(el, allowed, default) ==
    IF el THEN (IF "iframe" \in allowed THEN "iframe" ELSE "throw")
    ELSE IF default # None THEN default
    ELSE IF "lightbox" \in allowed THEN "lightbox"
    ELSE IF "popup" \in allowed THEN "popup"
    ELSE "throw"

\* C13: a render without a context on an Instance that is not rendered
\* resolves the context of the reference, for every element, set of allowed
\* contexts and default context: it throws exactly when the reference fails,
\* and otherwise renders in the context of the reference
C13_ContextResolution ==
    \A i \in Instances, el \in BOOLEAN :
        (Live(i) /\ inst[i].window = None) =>
            LET w == render(World(i, "render"), el, None)
                ref == ContextReference(el, contexts, defaultContext)
            IN  /\ w.thrown <=> ref = "throw"
                /\ ~w.thrown => w.me.context = ref

\* C14: the URL buildUrl returns is the base URL - the url prop if set, else
\* the URL the environment table gives for the env prop, else the URL of the
\* component - followed by "?" ("&" when the base has a query) and the
\* key=value of every non-empty prop that is not a function, joined by "&";
\* with props {env: "prod"} and nothing else non-empty it is exactly
\* https://x.example/run?env=prod
C14_BuildUrl ==
    probe.stage \in {"url", "again"} =>
        LET props == probe.props
            NonEmpty(key) == Truthy(props[key]) /\ props[key].t # "function"
            Text(v) == CASE v.t = "boolean" -> "1"
                         [] v.t = "string" -> v.s
                         [] v.t = "object" -> JsonStringify[v.s]
                         [] v.t = "number" -> NumberToString[v.n]
            Part(key) == IF NonEmpty(key)
                         THEN urlEncode(key) \o "=" \o urlEncode(Text(props[key])) ELSE ""
            query == Join(SelectSeq(<<Part("url"), Part("env"), Part("x")>>,
                                    LAMBDA part : part # ""))
            mapped == props.env.s \in DOMAIN EnvUrls
            base == IF props.url # Str("") THEN props.url.s
                    ELSE IF props.env # Str("") THEN EnvUrls[props.env.s]
                    ELSE ComponentUrl
        IN  /\ (props.url # Str("") \/ props.env = Str("") \/ mapped) =>
                  probe.url = Str(IF query = "" THEN base
                                  ELSE base \o (IF base \in UrlsWithQuery THEN "&" ELSE "?")
                                            \o query)
            /\ (props.url = Str("") /\ props.env = Str("prod") /\ ~NonEmpty("x")) =>
                  probe.url = Str("https://x.example/run?env=prod")

C14_Witness ==
    /\ probe.stage = "url" /\ probe.raw = RawProps(Absent, Str("prod"), Absent)
    /\ probe.url = Str("https://x.example/run?env=prod")

\* C15: for every declaration, the normalization of an empty props object has
\* a defined value at every declared key, and the normalization of normalized
\* props returns the same props
C15_NormalizeTotalIdempotent ==
    /\ (probe.stage # "raw" /\ probe.stage # "none" /\ probe.raw = <<>>) =>
          \A key \in DOMAIN probe.schema :
              /\ key \in DOMAIN probe.props
              /\ probe.props[key].t # "undefined"
    /\ probe.stage = "again" => probe.again = probe.props

\* C16: in the query of a props object a boolean prop is key=1 exactly when it
\* is true and absent when false, a numeric prop is key=<its decimal string>,
\* and a function prop is absent (x is the last key, so its part is the last)
C16_QueryOfScalars ==
    probe.stage \in {"query", "url", "again"} =>
        LET x == probe.props.x
            rest == propsToQuery(<<"url", "env">>, probe.props)
            with(part) == IF rest = "" THEN part ELSE rest \o "&" \o part
        IN  /\ x = Bool(TRUE) => probe.query = with("x=1")
            /\ x = Bool(FALSE) => probe.query = rest
            /\ (x.t = "number" /\ x.s # "NaN") =>
                  probe.query = with("x=" \o NumberToString[x.n])
            /\ x.t = "function" => probe.query = rest

\* C17: when the reply to RENDER finds the Instance destroyed since the
\* request was sent (destroy has run and the registry is empty), its handler
\* acquires nothing: no window handle, no listener, no close or unload
\* observer, and the registry is still empty
C17_ReplyAfterDestroyAcquiresNothing ==
    [][\A i \in Instances :
        (inst[i].destroyed /\ inst[i].cleanupTasks = <<>> /\ RenderReply(i)) =>
            /\ inst'[i].window = None /\ inst'[i].listening = 0
            /\ inst'[i].closeWatch = 0 /\ inst'[i].unloadWatch = 0
            /\ inst'[i].cleanupTasks = <<>>]_vars

\* C18: an Instance whose render has completed has exactly one active
\* external-close observer and exactly one active page-unload observer
C18_OneCloseWatch ==
    \A i \in Instances :
        inst[i].rendered => inst[i].closeWatch = 1 /\ inst[i].unloadWatch = 1

\* C19: an INIT message handled after the init timeout has rejected the init
\* future has no effect: the Instance is left as it is (the future stays
\* rejected), the enter callback is not invoked and no PROPS message is sent
C19_InitAfterTimeoutIgnored ==
    \A i \in Instances :
        (inst[i].onInit = "rejected" /\ inst[i].listening > 0) =>
            LET w == initListener(World(i, "INIT"))
            IN  /\ w.me = inst[i]
                /\ ~Has(w.ev, "cb", "onEnter")
                /\ ~Has(w.ev, "send", "PROPS")

\* C20: an Instance with a configured timeout that holds an open surface
\* while its init future is pending has its init timer armed
C20_PendingInitIsTimed ==
    \A i \in Instances :
        ( /\ Truthy(inst[i].props.timeout)
          /\ inst[i].onInit = "pending"
          /\ \/ inst[i].window = "local" /\ inst[i].localSurf = 1
             \/ inst[i].window = "sibling" /\ inst[i].siblingSurf > 0 )
        => inst[i].timers > 0

\* the places of an event in the log of a handler
Places(log, kind, what) == {k \in 1..Len(log) : log[k] = <<kind, what>>}

C22_CloseCallbackOnce ==
    \A i \in Instances :
        ( /\ inst[i].closeReq > 0 /\ inst[i].closeWatch > 0
          /\ \/ inst[i].window = "local" /\ inst[i].localSurf = 1
             \/ inst[i].window = "sibling" /\ inst[i].siblingSurf > 0 )
        => ~Has(closeObserved(World(i, "windowClosed"), i).ev, "cb", "onClose")

\* C23: when an Instance has been destroyed since its init timer was armed,
\* with the init future still pending, the expiry of the timer invokes no
\* timeout callback and runs no destroy
C23_TimerAfterDestroyIsSilent ==
    \A i \in Instances :
        ( /\ inst[i].destroyed /\ ~inst[i].rendered
          /\ inst[i].timers > 0 /\ inst[i].onInit = "pending" )
        => LET w == timeoutExpired(World(i, "timeout"), i)
           IN  /\ ~Has(w.ev, "cb", "onTimeout")
               /\ ~Has(w.ev, "do", "destroy")

\* C24: activeComponents holds, once each, exactly the Instances whose
\* construction succeeded and that have not been destroyed; a construction
\* that throws leaves nothing in it
C24_ListIsLiveInstances ==
    /\ {activeComponents[k] : k \in 1..Len(activeComponents)}
          = {i \in Instances : inst[i].constructed = "yes" /\ ~inst[i].destroyed}
    /\ \A k, m \in 1..Len(activeComponents) :
          activeComponents[k] = activeComponents[m] => k = m

====
